---- MODULE Spec2Model ----
(***************************************************************************)
(* Model of the three programs of the repository:                          *)
(*   sign-frames  (src/unnamed/part_000)  frame signer + frame verifier    *)
(*   sign-file    (src/sign_video.js)     whole-file signer                *)
(*   verify-file  (src/unnamed/part_001)  whole-file verifier              *)
(*                                                                         *)
(* Abstractions.  SHA-256 is collision-free: the digest of a buffer is the *)
(* buffer itself, tagged.  A secp256k1 signature is the pair (key, signed  *)
(* message); recovery from a signature and the message it signs yields the *)
(* signing key, and recovery from any other message yields the key held in *)
(* strayKey, fixed per run: the scheme is unforgeable exactly when         *)
(* strayKey is not the wallet key.  Strings the code inspects character by *)
(* character (decimal timestamps) are sequences of one-character strings.  *)
(* The input directory holds only regular .png files, named by their frame *)
(* number; lexicographic order of the zero-padded names is numeric order.  *)
(***************************************************************************)
EXTENDS Integers, Sequences, FiniteSets, TLC

\* ------------------------------------------------------------------ bounds
MaxFrames == 2
MaxTamper == 2

\* --------------------------------------------------------------- constants
PRIVATE_KEY == "K1"
Keys == {"K1", "K2"}
Contents == {"a", "b"}
TsValues == {999999999, 1000000000}
Streams == {"s1", "s2"}
OtherTags == {"", "artist=x"}
Paths == {"input", "tmp", "tmp2", "final"}
TOTAL_STEPS == 8

VARIABLES
    prog,            \* which program sequence this behaviour runs
    pc,              \* position in main
    clock,           \* what Date.now() returns when main starts
    strayKey,        \* key recovered from a signature and a message it does not sign
    inputVideoExists,
    videoFrames,     \* frames ffmpeg decodes from INPUT_VIDEO, in order
    ffmpegOk,        \* whether the frame extraction process exits with code 0
    inputDir,        \* INPUT_DIR: filename -> content
    startTimestampMs,
    frameFiles,
    frames,
    i,               \* loop index of the signing loop (0-based, as in the code)
    manifestFile,    \* MANIFEST_PATH
    loaded,
    current,         \* step counter of createStepRunner
    lastErr,         \* error thrown by the failing step
    exitCode,
    banner,          \* 'ALL STEPS PASSED' printed
    verifyLog,       \* what the step 'Verify frames and signatures' did
    negLog,          \* what the step 'Negative verification' did
    hashTxt,         \* output/manifest_hash.txt
    manifestSignature,
    mp4Copy,         \* verifiable mp4s/test.mp4 written by sign-frames
    tampers,         \* number of changes made from outside the program
    fs,              \* INPUT_VIDEO and the files of 'verifiable mp4s': path -> container
    fileHashHex,     \* sign-file: digest of the canonical copy
    fileSignature,   \* sign-file: signature over {timestampMs, fileHashSha256}
    videoHashTxt,    \* output/video_hash.txt
    signOut,         \* the container sign-file delivered, as it delivered it
    payloadJson,     \* verify-file: the parsed comment
    canonCalls,      \* verify-file: calls of writeCanonicalMetadata
    recoverCalls,    \* verify-file: calls of ethers.utils.verifyMessage
    argv             \* verify-file: the target's extension and the expected timestamp

frameVars == <<inputVideoExists, videoFrames, ffmpegOk, inputDir, startTimestampMs,
               frameFiles, frames, i, manifestFile, loaded, verifyLog, negLog,
               hashTxt, manifestSignature, mp4Copy>>

fileVars == <<fs, fileHashHex, fileSignature, videoHashTxt, signOut, payloadJson,
              canonCalls, recoverCalls>>

vars == <<prog, pc, clock, strayKey, argv, current, lastErr, exitCode, banner, tampers,
          frameVars, fileVars>>

\* ------------------------------------------------------------ small helpers
Min(S) == CHOOSE x \in S : \A y \in S : x <= y

RECURSIVE SortSet(_)
SortSet(S) == IF S = {} THEN <<>> ELSE <<Min(S)>> \o SortSet(S \ {Min(S)})

SeqsUpTo(S, n) == UNION {[1..k -> S] : k \in 0..n}

NoErr == [kind |-> "none", file |-> 0, index |-> 0]
Err(k, f, ix) == [kind |-> k, file |-> f, index |-> ix]

\* hex strings: what they encode, and the letter case they are written in
Hex(kind, id, cs) == [kind |-> kind, id |-> id, cs |-> cs]
NoHex == Hex("empty", "", "lower")
toLowerCase(h) == [h EXCEPT !.cs = "lower"]
toUpperCase(h) == [h EXCEPT !.cs = "upper"]

\* String(n) of a non-negative integer: its decimal digits, most significant first
DigitChars == <<"0", "1", "2", "3", "4", "5", "6", "7", "8", "9">>

RECURSIVE String(_)
String(n) == IF n < 10 THEN <<DigitChars[n + 1]>>
             ELSE Append(String(n \div 10), DigitChars[(n % 10) + 1])

\* ----------------------------------------------------- part_000 primitives
NoManifest == [schema |-> "", startTimestampMs |-> 0,
               signer |-> [address |-> NoHex, publicKey |-> NoHex], frames |-> <<>>]

listPngFilesSorted(dir) == SortSet(DOMAIN dir)

sha256Hex(buffer) == Hex("sha256", buffer, "lower")

buildMessageString_noTimestamp(ts, frameNumber, frameHashSha256) ==
    [startTimestampMs |-> 0, frameNumber |-> frameNumber, frameHashSha256 |-> frameHashSha256]

buildMessageString(ts, frameNumber, frameHashSha256) ==
    [startTimestampMs |-> ts, frameNumber |-> frameNumber, frameHashSha256 |-> frameHashSha256]

hashMessage(messageString) == <<"keccak256", messageString>>

walletAddress(key) == Hex("address", key, "mixed")
walletPublicKey(key) == Hex("publicKey", key, "lower")

signMessage(key, messageString) == [key |-> key, msg |-> messageString]

signEip191(wallet, messageString) ==
    [signature |-> signMessage(wallet, messageString),
     messageKeccak256 |-> hashMessage(messageString)]

\* key that secp256k1 recovery yields for a signature and a message
recoverKey(messageString, signature) ==
    IF signature.msg = messageString THEN signature.key ELSE strayKey

verifyMessage(messageString, signature) ==
    walletAddress(recoverKey(messageString, signature))

recoverPublicKey(messageKeccak256, signature) ==
    walletPublicKey(recoverKey(messageKeccak256[2], signature))

verifyEip191_pubKeyIgnored(expectedAddress, messageString, signature, expectedPublicKeyHex) ==
    LET recoveredAddress == verifyMessage(messageString, signature)
        messageKeccak256 == hashMessage(messageString)
        recoveredPublicKey == recoverPublicKey(messageKeccak256, signature)
        addrOk == toLowerCase(recoveredAddress) = toLowerCase(expectedAddress)
    IN [addrOk |-> addrOk, pubOk |-> TRUE,
        recoveredAddress |-> recoveredAddress, recoveredPublicKey |-> recoveredPublicKey]

verifyEip191(expectedAddress, messageString, signature, expectedPublicKeyHex) ==
    LET recoveredAddress == verifyMessage(messageString, signature)
        messageKeccak256 == hashMessage(messageString)
        recoveredPublicKey == recoverPublicKey(messageKeccak256, signature)
        addrOk == toLowerCase(recoveredAddress) = toLowerCase(expectedAddress)
        pubOk == IF expectedPublicKeyHex # NoHex
                 THEN toLowerCase(recoveredPublicKey) = toLowerCase(expectedPublicKeyHex)
                 ELSE TRUE
    IN [addrOk |-> addrOk, pubOk |-> pubOk,
        recoveredAddress |-> recoveredAddress, recoveredPublicKey |-> recoveredPublicKey]

\* ----------------------------------------------------------- step runner
\* createStepRunner: a step that returns lets main go on; a step that throws
\* is rethrown to main's catch, which sets process.exitCode = 1.
StepPass(next) ==
    /\ current' = current + 1
    /\ pc' = next
    /\ UNCHANGED <<lastErr, exitCode, banner>>

StepFail_exitCodeUnset(e) ==
    /\ current' = current + 1
    /\ lastErr' = e
    /\ pc' = "exit"
    /\ UNCHANGED <<exitCode, banner>>

StepFail(e) ==
    /\ current' = current + 1
    /\ lastErr' = e
    /\ exitCode' = 1
    /\ pc' = "exit"
    /\ UNCHANGED banner

\* writeJson / readJson: the file holds the JSON text of the value
JSONstringify(data) == <<"json", data>>
JSONparse(raw) == raw[2]
NoFile == <<"json", NoManifest>>

\* ------------------------------------------------ frame verifier (one step)
CheckFrameSet_countOnly(m, inputFramesNow) ==
    IF Len(inputFramesNow) # Len(m.frames)
    THEN Err("Frame count mismatch", 0, 0)
    ELSE NoErr

CheckFrameSet_noOrdinalCheck(m, inputFramesNow) ==
    IF Len(inputFramesNow) # Len(m.frames)
    THEN Err("Frame count mismatch", 0, 0)
    ELSE LET bad == {k \in 1..Len(m.frames) : m.frames[k].filename # inputFramesNow[k]}
         IN IF bad = {} THEN NoErr
            ELSE Err("Frame filename mismatch", m.frames[Min(bad)].filename, Min(bad) - 1)

\* first loop of 'Verify frames and signatures': ordering and presence
CheckFrameSet(m, inputFramesNow) ==
    IF Len(inputFramesNow) # Len(m.frames)
    THEN Err("Frame count mismatch", 0, 0)
    ELSE LET bad == {k \in 1..Len(m.frames) :
                        \/ m.frames[k].filename # inputFramesNow[k]
                        \/ m.frames[k].frameNumber # k}
         IN IF bad = {} THEN NoErr
            ELSE LET k == Min(bad)
                 IN IF m.frames[k].filename # inputFramesNow[k]
                    THEN Err("Frame filename mismatch", m.frames[k].filename, k - 1)
                    ELSE Err("Frame number out of order", m.frames[k].filename, k - 1)

VerifyOneFrame_noDigestCheck(m, dir, f) ==
    LET recomputedSha == sha256Hex(dir[f.filename])
        recomputedMsg == buildMessageString(m.startTimestampMs, f.frameNumber, recomputedSha)
        v == verifyEip191(m.signer.address, recomputedMsg, f.signature, m.signer.publicKey)
    IN IF recomputedMsg # f.message THEN Err("Message mismatch", f.filename, 0)
       ELSE IF ~v.addrOk \/ ~v.pubOk THEN Err("Signature verification failed", f.filename, 0)
       ELSE NoErr

VerifyOneFrame_recordTimestamp(m, dir, f) ==
    LET recomputedSha == sha256Hex(dir[f.filename])
        recomputedMsg == buildMessageString(f.message.startTimestampMs, f.frameNumber,
                                            recomputedSha)
        v == verifyEip191(m.signer.address, recomputedMsg, f.signature, m.signer.publicKey)
    IN IF recomputedSha # f.frameHashSha256 THEN Err("Hash mismatch", f.filename, 0)
       ELSE IF recomputedMsg # f.message THEN Err("Message mismatch", f.filename, 0)
       ELSE IF ~v.addrOk \/ ~v.pubOk THEN Err("Signature verification failed", f.filename, 0)
       ELSE NoErr

\* one iteration of the second loop, for the record f; the file exists
VerifyOneFrame(m, dir, f) ==
    LET buf == dir[f.filename]
        recomputedSha == sha256Hex(buf)
        recomputedMsg == buildMessageString(m.startTimestampMs, f.frameNumber, recomputedSha)
        v == verifyEip191(m.signer.address, recomputedMsg, f.signature, m.signer.publicKey)
    IN IF recomputedSha # f.frameHashSha256 THEN Err("Hash mismatch", f.filename, 0)
       ELSE IF recomputedMsg # f.message THEN Err("Message mismatch", f.filename, 0)
       ELSE IF ~v.addrOk \/ ~v.pubOk THEN Err("Signature verification failed", f.filename, 0)
       ELSE NoErr

\* second loop from record k on: the files read, the frames that passed, the error
RECURSIVE VerifyLoop(_, _, _)
VerifyLoop(m, dir, k) ==
    IF k > Len(m.frames) THEN [reads |-> <<>>, accepted |-> 0, err |-> NoErr]
    ELSE LET f == m.frames[k]
         IN IF f.filename \notin DOMAIN dir
            THEN [reads |-> <<>>, accepted |-> 0, err |-> Err("ENOENT", f.filename, 0)]
            ELSE LET e == VerifyOneFrame(m, dir, f)
                 IN IF e # NoErr
                    THEN [reads |-> <<f.filename>>, accepted |-> 0, err |-> e]
                    ELSE LET rest == VerifyLoop(m, dir, k + 1)
                         IN [reads |-> <<f.filename>> \o rest.reads,
                             accepted |-> 1 + rest.accepted,
                             err |-> rest.err]

VerifyFramesStep(m, dir) ==
    LET e == CheckFrameSet(m, listPngFilesSorted(dir))
    IN IF e # NoErr THEN [reads |-> <<>>, accepted |-> 0, err |-> e]
       ELSE VerifyLoop(m, dir, 1)

\* --------------------------------------------- negative verification step
\* the loop inside the try block, from record k on: whether it threw, how many
\* frames it examined, and whether a frame verified under the bad timestamp
RECURSIVE NegativeLoop(_, _, _, _)
NegativeLoop(m, dir, badStartTs, k) ==
    IF k > Len(m.frames) THEN [threw |-> FALSE, examined |-> 0, spurious |-> FALSE]
    ELSE LET f == m.frames[k]
         IN IF f.filename \notin DOMAIN dir
            THEN [threw |-> TRUE, examined |-> 0, spurious |-> FALSE]
            ELSE LET recomputedSha == sha256Hex(dir[f.filename])
                     recomputedMsg == buildMessageString(badStartTs, f.frameNumber, recomputedSha)
                     v == verifyEip191(m.signer.address, recomputedMsg, f.signature,
                                       m.signer.publicKey)
                 IN IF recomputedMsg = f.message
                    THEN [threw |-> TRUE, examined |-> 1, spurious |-> FALSE]
                    ELSE IF v.addrOk /\ v.pubOk
                    THEN [threw |-> TRUE, examined |-> 1, spurious |-> TRUE]
                    ELSE LET rest == NegativeLoop(m, dir, badStartTs, k + 1)
                         IN [threw |-> rest.threw, examined |-> 1 + rest.examined,
                             spurious |-> rest.spurious]

\* value of negativeFailedAsExpected after the try/catch
negativeFailedAsExpected(r) == IF r.threw THEN TRUE ELSE TRUE

NoVerifyLog == [reads |-> <<>>, accepted |-> 0, err |-> NoErr, ran |-> FALSE]
NoNegLog == [threw |-> FALSE, examined |-> 0, spurious |-> FALSE, ran |-> FALSE]

\* ------------------------------------------------------- sign-frames: main
EmptyDir == [n \in {} |-> "a"]
DirOf(list) == [n \in 1..Len(list) |-> list[n]]

NoHashTxt == [name |-> "", startTimestamp |-> <<>>, manifestDigest |-> sha256Hex(NoFile)]
NoSig == [key |-> "", msg |-> <<>>]
NoMp4 == [artist |-> sha256Hex(NoFile), album |-> 0, title |-> ""]

InitFrames ==
    /\ inputVideoExists \in BOOLEAN
    /\ videoFrames \in SeqsUpTo(Contents, MaxFrames)
    /\ ffmpegOk \in BOOLEAN
    /\ inputDir \in {EmptyDir, DirOf(<<"a", "b", "a">>)}
    /\ startTimestampMs = 0
    /\ frameFiles = <<>>
    /\ frames = <<>>
    /\ i = 0
    /\ manifestFile = NoFile
    /\ loaded = NoManifest
    /\ verifyLog = NoVerifyLog
    /\ negLog = NoNegLog
    /\ hashTxt = NoHashTxt
    /\ manifestSignature = NoSig
    /\ mp4Copy = NoMp4

\* main, lines 157-175: the input check, the wallet and the start timestamp
StartFrames ==
    /\ prog = "sign-frames" /\ pc = "start"
    /\ IF ~inputVideoExists
       THEN /\ exitCode' = 1
            /\ lastErr' = Err("Input video not found", 0, 0)
            /\ pc' = "exit"
            /\ UNCHANGED startTimestampMs
       ELSE /\ startTimestampMs' = clock
            /\ pc' = "prepare"
            /\ UNCHANGED <<exitCode, lastErr>>
    /\ UNCHANGED <<prog, clock, strayKey, argv, current, banner, tampers, inputVideoExists,
                   videoFrames, ffmpegOk, inputDir, frameFiles, frames, i, manifestFile,
                   loaded, verifyLog, negLog, hashTxt, manifestSignature, mp4Copy, fileVars>>

\* step 'Prepare folders'
PrepareFolders ==
    /\ prog = "sign-frames" /\ pc = "prepare"
    /\ inputDir' = EmptyDir
    /\ StepPass("extract")
    /\ UNCHANGED <<prog, clock, strayKey, argv, tampers, inputVideoExists, videoFrames, ffmpegOk,
                   startTimestampMs, frameFiles, frames, i, manifestFile, loaded, verifyLog,
                   negLog, hashTxt, manifestSignature, mp4Copy, fileVars>>

\* step 'Extract frames'
ExtractFrames ==
    /\ prog = "sign-frames" /\ pc = "extract"
    /\ IF ffmpegOk
       THEN /\ inputDir' = DirOf(videoFrames)
            /\ StepPass("discover")
       ELSE /\ StepFail(Err("ffmpeg exited with code", 0, 0))
            /\ UNCHANGED inputDir
    /\ UNCHANGED <<prog, clock, strayKey, argv, tampers, inputVideoExists, videoFrames, ffmpegOk,
                   startTimestampMs, frameFiles, frames, i, manifestFile, loaded, verifyLog,
                   negLog, hashTxt, manifestSignature, mp4Copy, fileVars>>

\* step 'Discover frames'
DiscoverFrames ==
    /\ prog = "sign-frames" /\ pc = "discover"
    /\ LET files == listPngFilesSorted(inputDir)
       IN IF Len(files) = 0
          THEN /\ StepFail(Err("No frames were extracted", 0, 0))
               /\ UNCHANGED <<frameFiles, frames, i>>
          ELSE /\ frameFiles' = files
               /\ frames' = <<>>
               /\ i' = 0
               /\ StepPass("loop")
    /\ UNCHANGED <<prog, clock, strayKey, argv, tampers, inputVideoExists, videoFrames, ffmpegOk,
                   inputDir, startTimestampMs, manifestFile, loaded, verifyLog, negLog,
                   hashTxt, manifestSignature, mp4Copy, fileVars>>

FrameRecord_zeroBasedMessage(ts, frameNumber, filename, buffer) ==
    LET frameHashSha256 == sha256Hex(buffer)
        messageString == buildMessageString(ts, frameNumber - 1, frameHashSha256)
        sg == signEip191(PRIVATE_KEY, messageString)
    IN [frameNumber |-> frameNumber,
        filename |-> filename,
        frameHashSha256 |-> frameHashSha256,
        message |-> messageString,
        messageKeccak256 |-> sg.messageKeccak256,
        signature |-> sg.signature]

FrameRecord_clockPerFrame(ts, frameNumber, filename, buffer) ==
    LET frameHashSha256 == sha256Hex(buffer)
        messageString == buildMessageString(ts + frameNumber - 1, frameNumber, frameHashSha256)
        sg == signEip191(PRIVATE_KEY, messageString)
    IN [frameNumber |-> frameNumber,
        filename |-> filename,
        frameHashSha256 |-> frameHashSha256,
        message |-> messageString,
        messageKeccak256 |-> sg.messageKeccak256,
        signature |-> sg.signature]

\* the record pushed by iteration i of the signing loop
FrameRecord(ts, frameNumber, filename, buffer) ==
    LET frameHashSha256 == sha256Hex(buffer)
        messageString == buildMessageString(ts, frameNumber, frameHashSha256)
        sg == signEip191(PRIVATE_KEY, messageString)
    IN [frameNumber |-> frameNumber,
        filename |-> filename,
        frameHashSha256 |-> frameHashSha256,
        message |-> messageString,
        messageKeccak256 |-> sg.messageKeccak256,
        signature |-> sg.signature]

\* what may throw inside one iteration of the signing loop
FrameFailures == {"readFile failed", "signMessage failed"}

SignFrame_skipsBadFrame ==
    /\ prog = "sign-frames" /\ pc = "loop" /\ i < Len(frameFiles)
    /\ LET frameNumber == i + 1
           filename == frameFiles[i + 1]
       IN \/ /\ filename \in DOMAIN inputDir
             /\ frames' = Append(frames,
                     FrameRecord(startTimestampMs, frameNumber, filename, inputDir[filename]))
             /\ i' = i + 1
             /\ UNCHANGED <<pc, lastErr, exitCode>>
          \/ /\ \E k \in FrameFailures : lastErr' = Err(k, filename, i)
             /\ i' = i + 1
             /\ UNCHANGED <<frames, pc, exitCode>>
    /\ UNCHANGED <<prog, clock, strayKey, argv, current, banner, tampers, inputVideoExists,
                   videoFrames, ffmpegOk, inputDir, startTimestampMs, frameFiles,
                   manifestFile, loaded, verifyLog, negLog, hashTxt, manifestSignature,
                   mp4Copy, fileVars>>

\* one iteration of the signing loop; readFileBuffer or signEip191 may
\* throw, and the exception goes to main's catch
SignFrame ==
    /\ prog = "sign-frames" /\ pc = "loop" /\ i < Len(frameFiles)
    /\ LET frameNumber == i + 1
           filename == frameFiles[i + 1]
       IN \/ /\ filename \in DOMAIN inputDir
             /\ frames' = Append(frames,
                     FrameRecord(startTimestampMs, frameNumber, filename, inputDir[filename]))
             /\ i' = i + 1
             /\ UNCHANGED <<pc, lastErr, exitCode>>
          \/ /\ \E k \in FrameFailures : lastErr' = Err(k, filename, i)
             /\ exitCode' = 1
             /\ pc' = "exit"
             /\ UNCHANGED <<frames, i>>
    /\ UNCHANGED <<prog, clock, strayKey, argv, current, banner, tampers, inputVideoExists,
                   videoFrames, ffmpegOk, inputDir, startTimestampMs, frameFiles,
                   manifestFile, loaded, verifyLog, negLog, hashTxt, manifestSignature,
                   mp4Copy, fileVars>>

\* the manifest object of lines 226-241
Manifest(ts, frs) ==
    [schema |-> "crypto-video-frames-manifest@1",
     startTimestampMs |-> ts,
     signer |-> [address |-> walletAddress(PRIVATE_KEY),
                 publicKey |-> walletPublicKey(PRIVATE_KEY)],
     frames |-> frs]

WriteManifest_withCertificate ==
    /\ prog = "sign-frames" /\ pc = "loop" /\ i = Len(frameFiles)
    /\ manifestFile' = JSONstringify(Manifest(startTimestampMs, frames))
    /\ hashTxt' = [name |-> "test.mp4", startTimestamp |-> String(startTimestampMs),
                   manifestDigest |-> sha256Hex(manifestFile')]
    /\ StepPass("verify")
    /\ UNCHANGED <<prog, clock, strayKey, argv, tampers, inputVideoExists, videoFrames, ffmpegOk,
                   inputDir, startTimestampMs, frameFiles, frames, i, loaded, verifyLog,
                   negLog, manifestSignature, mp4Copy, fileVars>>

\* step 'Write manifest', reached when the loop has run out
WriteManifest ==
    /\ prog = "sign-frames" /\ pc = "loop" /\ i = Len(frameFiles)
    /\ manifestFile' = JSONstringify(Manifest(startTimestampMs, frames))
    /\ StepPass("verify")
    /\ UNCHANGED <<prog, clock, strayKey, argv, tampers, inputVideoExists, videoFrames, ffmpegOk,
                   inputDir, startTimestampMs, frameFiles, frames, i, loaded, verifyLog,
                   negLog, hashTxt, manifestSignature, mp4Copy, fileVars>>

\* step 'Verify frames and signatures'
VerifyFrames ==
    /\ prog = "sign-frames" /\ pc = "verify"
    /\ LET loadedManifest == JSONparse(manifestFile)
           r == VerifyFramesStep(loadedManifest, inputDir)
       IN /\ verifyLog' = [reads |-> r.reads, accepted |-> r.accepted, err |-> r.err,
                           ran |-> TRUE]
          /\ IF r.err = NoErr
             THEN /\ loaded' = loadedManifest
                  /\ StepPass("negative")
             ELSE /\ StepFail(r.err)
                  /\ UNCHANGED loaded
    /\ UNCHANGED <<prog, clock, strayKey, argv, tampers, inputVideoExists, videoFrames, ffmpegOk,
                   inputDir, startTimestampMs, frameFiles, frames, i, manifestFile, negLog,
                   hashTxt, manifestSignature, mp4Copy, fileVars>>

\* step 'Negative verification (bad start timestamp)'
NegativeVerification ==
    /\ prog = "sign-frames" /\ pc = "negative"
    /\ LET badStartTs == loaded.startTimestampMs + 1
           r == NegativeLoop(loaded, inputDir, badStartTs, 1)
       IN /\ negLog' = [threw |-> r.threw, examined |-> r.examined,
                        spurious |-> r.spurious, ran |-> TRUE]
          /\ IF negativeFailedAsExpected(r)
             THEN StepPass("signManifest")
             ELSE StepFail(Err("Negative verification did not fail as expected", 0, 0))
    /\ UNCHANGED <<prog, clock, strayKey, argv, tampers, inputVideoExists, videoFrames, ffmpegOk,
                   inputDir, startTimestampMs, frameFiles, frames, i, manifestFile, loaded,
                   verifyLog, hashTxt, manifestSignature, mp4Copy, fileVars>>

ManifestCertificate_staleDigest(ts, manifestBuffer) ==
    LET manifestSha256Hex == sha256Hex(NoFile)
        manifestHashBytes == <<"bytes", manifestSha256Hex>>
    IN [manifestSignature |-> signMessage(PRIVATE_KEY, manifestHashBytes),
        lines |-> [name |-> "test.mp4", startTimestamp |-> String(ts),
                   manifestDigest |-> manifestSha256Hex]]

\* what the step computes from the manifest file it reads back: the
\* signature over the 32 digest bytes, and the lines of manifest_hash.txt
ManifestCertificate(ts, manifestBuffer) ==
    LET manifestSha256Hex == sha256Hex(manifestBuffer)
        manifestHashBytes == <<"bytes", manifestSha256Hex>>
    IN [manifestSignature |-> signMessage(PRIVATE_KEY, manifestHashBytes),
        lines |-> [name |-> "test.mp4", startTimestamp |-> String(ts),
                   manifestDigest |-> manifestSha256Hex]]

SignManifestHash_rewritesManifest ==
    /\ prog = "sign-frames" /\ pc = "signManifest"
    /\ LET cert == ManifestCertificate(startTimestampMs, manifestFile)
       IN /\ manifestSignature' = cert.manifestSignature
          /\ hashTxt' = cert.lines
          /\ manifestFile' = JSONstringify([JSONparse(manifestFile) EXCEPT
                                               !.schema = "crypto-video-frames-manifest@1+cert"])
    /\ StepPass("writeMp4")
    /\ UNCHANGED <<prog, clock, strayKey, argv, tampers, inputVideoExists, videoFrames, ffmpegOk,
                   inputDir, startTimestampMs, frameFiles, frames, i, loaded,
                   verifyLog, negLog, mp4Copy, fileVars>>

\* step 'Sign manifest hash and write manifest_hash.txt'
SignManifestHash ==
    /\ prog = "sign-frames" /\ pc = "signManifest"
    /\ LET cert == ManifestCertificate(startTimestampMs, manifestFile)
       IN /\ manifestSignature' = cert.manifestSignature
          /\ hashTxt' = cert.lines
    /\ StepPass("writeMp4")
    /\ UNCHANGED <<prog, clock, strayKey, argv, tampers, inputVideoExists, videoFrames, ffmpegOk,
                   inputDir, startTimestampMs, frameFiles, frames, i, manifestFile, loaded,
                   verifyLog, negLog, mp4Copy, fileVars>>

\* step 'Write verifiable MP4 copy with metadata', then the closing banner
WriteVerifiableMp4 ==
    /\ prog = "sign-frames" /\ pc = "writeMp4"
    /\ \/ /\ mp4Copy' = [artist |-> sha256Hex(manifestFile), album |-> startTimestampMs,
                          title |-> "Verifiable Video"]
          /\ current' = current + 1
          /\ banner' = TRUE
          /\ pc' = "exit"
          /\ UNCHANGED <<lastErr, exitCode>>
       \/ /\ StepFail(Err("ffmpeg (metadata write) exited with code", 0, 0))
          /\ UNCHANGED mp4Copy
    /\ UNCHANGED <<prog, clock, strayKey, argv, tampers, inputVideoExists, videoFrames, ffmpegOk,
                   inputDir, startTimestampMs, frameFiles, frames, i, manifestFile, loaded,
                   verifyLog, negLog, hashTxt, manifestSignature, fileVars>>

\* ------------------------------- changes made from outside, before verifying
\* The window is between the steps 'Write manifest' and 'Verify frames'.
TamperWindow == prog = "sign-frames" /\ pc = "verify" /\ tampers < MaxTamper

TamperUnchanged ==
    UNCHANGED <<prog, pc, clock, strayKey, argv, current, lastErr, exitCode, banner,
                inputVideoExists, videoFrames, ffmpegOk, startTimestampMs, frameFiles,
                frames, i, loaded, verifyLog, negLog, hashTxt, manifestSignature, mp4Copy, fileVars>>

TamperFrameContent ==
    /\ TamperWindow
    /\ \E n \in DOMAIN inputDir : \E c \in Contents \ {inputDir[n]} :
          inputDir' = [inputDir EXCEPT ![n] = c]
    /\ tampers' = tampers + 1
    /\ UNCHANGED manifestFile
    /\ TamperUnchanged

TamperRemoveFrame ==
    /\ TamperWindow
    /\ \E n \in DOMAIN inputDir :
          inputDir' = [m \in DOMAIN inputDir \ {n} |-> inputDir[m]]
    /\ tampers' = tampers + 1
    /\ UNCHANGED manifestFile
    /\ TamperUnchanged

TamperAddFrame ==
    /\ TamperWindow
    /\ \E n \in (1..(MaxFrames + 1)) \ DOMAIN inputDir : \E c \in Contents :
          inputDir' = [m \in DOMAIN inputDir \cup {n} |->
                          IF m = n THEN c ELSE inputDir[m]]
    /\ tampers' = tampers + 1
    /\ UNCHANGED manifestFile
    /\ TamperUnchanged

\* the stored filenames of two records are exchanged, the rest is left alone
TamperSwapFilenames ==
    /\ TamperWindow
    /\ LET m == JSONparse(manifestFile)
       IN \E a, b \in 1..Len(m.frames) :
            /\ a < b
            /\ manifestFile' = JSONstringify([m EXCEPT
                   !.frames[a].filename = m.frames[b].filename,
                   !.frames[b].filename = m.frames[a].filename])
    /\ tampers' = tampers + 1
    /\ UNCHANGED inputDir
    /\ TamperUnchanged

\* the stored frameNumber of one record is replaced
TamperFrameNumber ==
    /\ TamperWindow
    /\ LET m == JSONparse(manifestFile)
       IN \E k \in 1..Len(m.frames) : \E n \in (0..(MaxFrames + 1)) \ {m.frames[k].frameNumber} :
            manifestFile' = JSONstringify([m EXCEPT !.frames[k].frameNumber = n])
    /\ tampers' = tampers + 1
    /\ UNCHANGED inputDir
    /\ TamperUnchanged

TamperManifestTimestamp ==
    /\ TamperWindow
    /\ LET m == JSONparse(manifestFile)
       IN \E ts \in (TsValues \cup {m.startTimestampMs + 1}) \ {m.startTimestampMs} :
            manifestFile' = JSONstringify([m EXCEPT !.startTimestampMs = ts])
    /\ tampers' = tampers + 1
    /\ UNCHANGED inputDir
    /\ TamperUnchanged

\* the signer block of the manifest is edited: the expected public key is
\* removed, rewritten in upper case or replaced, or the address is replaced
\* or rewritten in lower case
TamperSigner ==
    /\ TamperWindow
    /\ LET m == JSONparse(manifestFile)
       IN \/ \E pk \in ({NoHex} \cup {walletPublicKey(k) : k \in Keys}
                         \cup {toUpperCase(walletPublicKey(PRIVATE_KEY))})
                        \ {m.signer.publicKey} :
                manifestFile' = JSONstringify([m EXCEPT !.signer.publicKey = pk])
          \/ \E a \in ({walletAddress(k) : k \in Keys}
                        \cup {toLowerCase(walletAddress(PRIVATE_KEY))})
                       \ {m.signer.address} :
                manifestFile' = JSONstringify([m EXCEPT !.signer.address = a])
    /\ tampers' = tampers + 1
    /\ UNCHANGED inputDir
    /\ TamperUnchanged

\* =============================================== whole-file pipeline: data
\* JSON values of the payload's timestampMs: a number or a string
JNum(n) == [t |-> "num", n |-> n, s |-> <<>>]
JStr(str) == [t |-> "str", n |-> 0, s |-> str]

PayloadFields == {"timestampMs", "fileHashSha256", "signerAddress", "signature"}

\* text of a comment tag: absent, a plain string, or the JSON text of an object
EmptyObject == [present |-> {}, timestampMs |-> JNum(0), fileHashSha256 |-> NoHex,
                signerAddress |-> NoHex, signature |-> [key |-> "", msg |-> <<>>]]
NoComment == [kind |-> "none", text |-> <<>>, obj |-> EmptyObject]
TextComment(str) == [kind |-> "text", text |-> str, obj |-> EmptyObject]

\* JSON.stringify of an object, and JSON.parse of a comment followed by the
\* object test of part_001:131 (a plain string parses, if at all, to a
\* number or a string, never to an object)
JSONstringifyObject(o) == [kind |-> "json", text |-> <<>>, obj |-> o]
JSONparseObject(comment) ==
    IF comment.kind = "json" THEN [ok |-> TRUE, value |-> comment.obj]
    ELSE [ok |-> FALSE, value |-> EmptyObject]

\* a file of the media folder: absent, or a container with its encoded
\* stream, its comment tag and its other tags
Absent == [exists |-> FALSE, stream |-> "", other |-> "", comment |-> NoComment]
Container(stream, other, comment) ==
    [exists |-> TRUE, stream |-> stream, other |-> other, comment |-> comment]

\* String(x) of a payload field: 'undefined' when the field is missing
UndefinedChars == <<"undefined">>
UndefinedHex == Hex("text", "undefined", "lower")
UndefinedSignature == [key |-> "", msg |-> <<>>]

StringOfTimestamp(o) ==
    IF "timestampMs" \notin o.present THEN UndefinedChars
    ELSE IF o.timestampMs.t = "num" THEN String(o.timestampMs.n)
    ELSE o.timestampMs.s
StringOfHash(o) == IF "fileHashSha256" \in o.present THEN o.fileHashSha256 ELSE UndefinedHex
StringOfAddress(o) == IF "signerAddress" \in o.present THEN o.signerAddress ELSE UndefinedHex
StringOfSignature(o) == IF "signature" \in o.present THEN o.signature ELSE UndefinedSignature

IsDigit(c) == \E d \in 1..10 : DigitChars[d] = c
DigitValue(c) == (CHOOSE d \in 1..10 : DigitChars[d] = c) - 1

\* Number(str) of a string of decimal digits; NaN, written -1, otherwise
RECURSIVE NumberOfDigits(_)
NumberOfDigits(str) ==
    IF Len(str) = 0 THEN 0
    ELSE 10 * NumberOfDigits(SubSeq(str, 1, Len(str) - 1)) + DigitValue(str[Len(str)])
Number(str) ==
    IF Len(str) > 0 /\ \A k \in 1..Len(str) : IsDigit(str[k]) THEN NumberOfDigits(str) ELSE -1

\* /^\d{10,}$/
MIN_TS_DIGITS == 10
TimestampShapeOk(str) == Len(str) >= MIN_TS_DIGITS /\ \A k \in 1..Len(str) : IsDigit(str[k])

AddressShapeOk_unchecked(h) == TRUE

\* /^0x[a-fA-F0-9]{40}$/
AddressShapeOk(h) == h.kind = "address"

\* the two-field message of sign_video.js:138 and part_001:166
FileMessage(timestampMs, fileHashSha256) ==
    [timestampMs |-> timestampMs, fileHashSha256 |-> fileHashSha256]

writeMetadata_reencode(input, comment) ==
    [input EXCEPT !.comment = comment, !.stream = "reencoded"]

writeMetadata_stripTags(input, comment) == Container(input.stream, "", comment)

\* ffmpeg -map_metadata 0 -metadata comment=... -c copy
writeMetadata(input, comment) == [input EXCEPT !.comment = comment]

writeCanonicalMetadata_keepsTags(input, comment) == [input EXCEPT !.comment = comment]

\* ffmpeg -map_metadata -1 -metadata comment=... -c copy
writeCanonicalMetadata(input, comment) == Container(input.stream, "", comment)

\* a comment tag on a track of the container, which ffmpeg prints in the
\* [STREAM] section of its metadata dump; ffmpeg does not write it back when
\* it copies the container
TrackComment == "[STREAM] comment=hi"

\* ffmpeg -i file -f ffmetadata -: one key=value line for every tag, the
\* global tags first, then the tags of each stream
MetadataDump(file) ==
    (IF file.comment.kind = "none" THEN <<>>
     ELSE <<[section |-> "global", key |-> "comment", val |-> file.comment]>>)
    \o (IF file.other = "artist=x"
        THEN <<[section |-> "global", key |-> "artist", val |-> TextComment(<<"x">>)]>>
        ELSE <<>>)
    \o (IF file.other = TrackComment
        THEN <<[section |-> "stream", key |-> "comment", val |-> TextComment(<<"hi">>)]>>
        ELSE <<>>)

\* readMetadataTags(file).comment: every line of the dump is matched against
\* key=value, whatever its section, and the last line whose key is 'comment'
\* gives the value
readMetadataTags(file) ==
    LET lines == MetadataDump(file)
        hits == {k \in 1..Len(lines) : lines[k].key = "comment"}
    IN IF hits = {} THEN NoComment
       ELSE lines[CHOOSE k \in hits : \A h \in hits : h <= k].val

\* (tags.comment || '').trim() is '': there is no comment line
CommentIsEmpty(file) == readMetadataTags(file).kind = "none"

NoPayload == EmptyObject

\* comment tags INPUT_VIDEO may carry: none, some text, a decimal timestamp
InputComments == {NoComment, TextComment(<<"hi">>), TextComment(String(1000000000))}

\* process.argv[2]: the delivered container under the name sign-file gave it,
\* or renamed with another extension; process.argv[3]: absent, or a decimal
\* timestamp
TargetExts == {".mp4", ".mov"}
NoExpected == <<>>
ExpectedArgs == {NoExpected, String(1000000001)}
NoArgv == [ext |-> ".mp4", expectedTs |-> NoExpected]

\* filePath.replace(/\.mp4$/i, suffix), on the tail of the file name
replaceMp4(ext, suffix) == IF ext = ".mp4" THEN suffix ELSE ext
\* the file a name with this tail denotes: the target itself unless the
\* tail is one of the two suffixes
PathOfTail(tail) ==
    CASE tail = ".tmp.mp4" -> "tmp"
      [] tail = ".tmp2.mp4" -> "tmp2"
      [] OTHER -> "final"
temp1 == PathOfTail(replaceMp4(argv.ext, ".tmp.mp4"))
temp2 == PathOfTail(replaceMp4(argv.ext, ".tmp2.mp4"))

\* what the output path may hold before sign-file runs
InitialFinals == {Absent, Container("s2", "", NoComment)}

InitFile ==
    /\ fs \in {f \in [Paths -> {Absent} \cup
                     {Container(st, o, c) : st \in Streams, o \in OtherTags,
                                            c \in InputComments}] :
                 /\ f["tmp"] = Absent /\ f["tmp2"] = Absent
                 /\ f["final"] \in InitialFinals}
    /\ fileHashHex = NoHex
    /\ fileSignature = UndefinedSignature
    /\ videoHashTxt = [name |-> "", startTimestamp |-> <<>>, fileDigest |-> NoHex]
    /\ signOut = Absent
    /\ payloadJson = NoPayload
    /\ canonCalls = 0
    /\ recoverCalls = 0

InitFramesIdle ==
    /\ inputVideoExists = FALSE
    /\ videoFrames = <<>>
    /\ ffmpegOk = FALSE
    /\ inputDir = EmptyDir
    /\ startTimestampMs = 0
    /\ frameFiles = <<>>
    /\ frames = <<>>
    /\ i = 0
    /\ manifestFile = NoFile
    /\ loaded = NoManifest
    /\ verifyLog = NoVerifyLog
    /\ negLog = NoNegLog
    /\ hashTxt = NoHashTxt
    /\ manifestSignature = NoSig
    /\ mp4Copy = NoMp4

InitFileIdle ==
    /\ fs = [p \in Paths |-> Absent]
    /\ fileHashHex = NoHex
    /\ fileSignature = UndefinedSignature
    /\ videoHashTxt = [name |-> "", startTimestamp |-> <<>>, fileDigest |-> NoHex]
    /\ signOut = Absent
    /\ payloadJson = NoPayload
    /\ canonCalls = 0
    /\ recoverCalls = 0

FrameVarsUnchanged ==
    UNCHANGED <<inputVideoExists, videoFrames, ffmpegOk, inputDir, frameFiles, frames, i,
                manifestFile, loaded, verifyLog, negLog, hashTxt, manifestSignature, mp4Copy>>

\* ---------------------------------------------------- sign-file: main
\* main, lines 99-123: the input check, the wallet and the start timestamp
StartSignFile ==
    /\ prog = "sign-file" /\ pc = "start"
    /\ IF ~fs["input"].exists
       THEN /\ exitCode' = 1
            /\ lastErr' = Err("Input video not found", 0, 0)
            /\ pc' = "exit"
            /\ UNCHANGED startTimestampMs
       ELSE /\ startTimestampMs' = clock
            /\ pc' = "copy"
            /\ UNCHANGED <<exitCode, lastErr>>
    /\ UNCHANGED <<prog, clock, strayKey, argv, current, banner, tampers, fileVars>>
    /\ FrameVarsUnchanged

\* step 'Make temporary copy in verifiable folder'
MakeTemporaryCopy ==
    /\ prog = "sign-file" /\ pc = "copy"
    /\ fs' = [fs EXCEPT !["tmp"] = fs["input"]]
    /\ StepPass("canonical")
    /\ UNCHANGED <<prog, clock, strayKey, argv, tampers, startTimestampMs, fileHashHex,
                   fileSignature, videoHashTxt, signOut, payloadJson, canonCalls,
                   recoverCalls>>
    /\ FrameVarsUnchanged

\* step 'Create canonical copy: only comment=timestamp (strip other tags)'
CreateCanonicalCopy ==
    /\ prog = "sign-file" /\ pc = "canonical"
    /\ \/ /\ fs' = [fs EXCEPT !["tmp2"] =
                      writeCanonicalMetadata(fs["tmp"], TextComment(String(startTimestampMs)))]
          /\ StepPass("hash")
       \/ /\ StepFail(Err("ffmpeg (write canonical metadata) exited", 0, 0))
          /\ UNCHANGED fs
    /\ UNCHANGED <<prog, clock, strayKey, argv, tampers, startTimestampMs, fileHashHex,
                   fileSignature, videoHashTxt, signOut, payloadJson, canonCalls,
                   recoverCalls>>
    /\ FrameVarsUnchanged

\* step 'Hash and sign canonical MP4'
HashAndSign ==
    /\ prog = "sign-file" /\ pc = "hash"
    /\ LET fileHashHexLocal == sha256Hex(fs["tmp2"])
           messageString == FileMessage(startTimestampMs, fileHashHexLocal)
       IN /\ fileHashHex' = fileHashHexLocal
          /\ fileSignature' = signMessage(PRIVATE_KEY, messageString)
    /\ StepPass("hashTxt")
    /\ UNCHANGED <<prog, clock, strayKey, argv, tampers, startTimestampMs, fs, videoHashTxt,
                   signOut, payloadJson, canonCalls, recoverCalls>>
    /\ FrameVarsUnchanged

\* step 'Write video_hash.txt'
WriteVideoHashTxt ==
    /\ prog = "sign-file" /\ pc = "hashTxt"
    /\ videoHashTxt' = [name |-> "test.mp4", startTimestamp |-> String(startTimestampMs),
                        fileDigest |-> fileHashHex]
    /\ StepPass("populate")
    /\ UNCHANGED <<prog, clock, strayKey, argv, tampers, startTimestampMs, fs, fileHashHex,
                   fileSignature, signOut, payloadJson, canonCalls, recoverCalls>>
    /\ FrameVarsUnchanged

\* the payload object of sign_video.js:159
Payload(ts, hash, address, sig) ==
    [present |-> PayloadFields, timestampMs |-> JNum(ts), fileHashSha256 |-> hash,
     signerAddress |-> address, signature |-> sig]

\* a file ffmpeg left behind when it exited with an error
Truncated == [exists |-> TRUE, stream |-> "truncated", other |-> "", comment |-> NoComment]

PopulateOutcomes_writesInPlace(files, payload) ==
    LET out == writeMetadata(files["tmp"], payload)
    IN  {[err |-> "", fs |-> [files EXCEPT !["tmp"] = Absent, !["tmp2"] = Absent,
                                           !["final"] = out]]}
        \cup {[err |-> "ffmpeg (write metadata) exited",
               fs |-> [files EXCEPT !["tmp2"] = Absent, !["final"] = t]] : t \in {Absent, Truncated}}

\* the ways the five calls of the step can end: all succeed; ffmpeg exits
\* with an error (line 161); rm of the copy throws (162); rm of the old
\* output throws (164); rename throws (165)
PopulateOutcomes(files, payload) ==
    LET out == writeMetadata(files["tmp"], payload)
    IN  {[err |-> "", fs |-> [files EXCEPT !["tmp"] = Absent, !["tmp2"] = Absent,
                                           !["final"] = out]]}
        \cup {[err |-> "ffmpeg (write metadata) exited",
               fs |-> [files EXCEPT !["tmp2"] = t]] : t \in {Absent, Truncated}}
        \cup {[err |-> "rm failed", fs |-> [files EXCEPT !["tmp2"] = out]],
              [err |-> "rm failed", fs |-> [files EXCEPT !["tmp"] = Absent, !["tmp2"] = out]],
              [err |-> "rename failed",
               fs |-> [files EXCEPT !["tmp"] = Absent, !["tmp2"] = out, !["final"] = Absent]]}

\* step 'Populate comment with JSON ... on original and finalize', then DONE
PopulateComment ==
    /\ prog = "sign-file" /\ pc = "populate"
    /\ LET payload == JSONstringifyObject(Payload(startTimestampMs, fileHashHex,
                          walletAddress(PRIVATE_KEY), fileSignature))
       IN \E o \in PopulateOutcomes(fs, payload) :
            /\ fs' = o.fs
            /\ IF o.err = ""
               THEN /\ signOut' = o.fs["final"]
                    /\ current' = current + 1
                    /\ banner' = TRUE
                    /\ pc' = "exit"
                    /\ UNCHANGED <<lastErr, exitCode>>
               ELSE /\ StepFail(Err(o.err, 0, 0))
                    /\ UNCHANGED signOut
    /\ UNCHANGED <<prog, clock, strayKey, argv, tampers, startTimestampMs, fileHashHex,
                   fileSignature, videoHashTxt, payloadJson, canonCalls, recoverCalls>>
    /\ FrameVarsUnchanged

\* -------------------------- changes made to the delivered container from outside
FileTamperWindow ==
    /\ prog = "sign-file" /\ pc = "exit" /\ tampers < MaxTamper
    /\ fs["final"].exists

FileTamperUnchanged ==
    /\ UNCHANGED <<prog, pc, clock, strayKey, argv, current, lastErr, exitCode, banner,
                   startTimestampMs, fileHashHex, fileSignature, videoHashTxt, signOut,
                   payloadJson, canonCalls, recoverCalls>>
    /\ FrameVarsUnchanged

TamperStream ==
    /\ FileTamperWindow
    /\ \E st \in Streams \ {fs["final"].stream} :
          fs' = [fs EXCEPT !["final"].stream = st]
    /\ tampers' = tampers + 1
    /\ FileTamperUnchanged

\* tags other than the payload are changed, or the comment tag is replaced
TamperTags ==
    /\ FileTamperWindow
    /\ \/ \E o \in (OtherTags \cup {TrackComment}) \ {fs["final"].other} :
             fs' = [fs EXCEPT !["final"].other = o]
       \/ \E c \in {NoComment, TextComment(<<"hi">>), JSONstringifyObject(EmptyObject)}
                     \ {fs["final"].comment} :
             fs' = [fs EXCEPT !["final"].comment = c]
    /\ tampers' = tampers + 1
    /\ FileTamperUnchanged

\* one field of the payload object is replaced or removed
TamperedPayloads(file) ==
    LET o == file.comment.obj
        tsStr == StringOfTimestamp(o)
        rehash == sha256Hex(writeCanonicalMetadata(file, TextComment(tsStr)))
        msg == FileMessage(Number(tsStr), StringOfHash(o))
    IN  {[o EXCEPT !.timestampMs = v] :
            v \in {JNum(n) : n \in TsValues \cup {startTimestampMs + 1}}
                  \cup {JStr(String(startTimestampMs)),
                        JStr(<<"0">> \o String(startTimestampMs)),
                        JStr(<<"x">>)}}
        \cup {[o EXCEPT !.fileHashSha256 = v] : v \in {toUpperCase(o.fileHashSha256), rehash}}
        \cup {[o EXCEPT !.signerAddress = v] :
                v \in {Hex("text", "not-an-address", "lower"), toLowerCase(o.signerAddress)}
                      \cup {walletAddress(k) : k \in Keys}}
        \cup {[o EXCEPT !.signature = v] :
                v \in {UndefinedSignature} \cup {signMessage(k, msg) : k \in Keys}}
        \cup {[o EXCEPT !.present = o.present \ {f}] : f \in o.present}

TamperPayload ==
    /\ FileTamperWindow
    /\ fs["final"].comment.kind = "json"
    /\ \E o \in TamperedPayloads(fs["final"]) \ {fs["final"].comment.obj} :
          fs' = [fs EXCEPT !["final"].comment = JSONstringifyObject(o)]
    /\ tampers' = tampers + 1
    /\ FileTamperUnchanged

\* --------------------------------------------------- verify-file: main
\* main of part_001 with the delivered file as its target, run as a new
\* process once sign-file has exited; the folder holds no other .mp4 file
\* when the target is missing
StartVerifyFile ==
    /\ prog = "sign-file" /\ pc = "exit"
    /\ fs["final"].exists \/ (~fs["tmp"].exists /\ ~fs["tmp2"].exists)
    /\ prog' = "verify-file"
    /\ \E ext \in TargetExts, e \in ExpectedArgs : argv' = [ext |-> ext, expectedTs |-> e]
    /\ current' = 0
    /\ banner' = FALSE
    /\ IF ~fs["final"].exists
       THEN /\ exitCode' = 1
            /\ lastErr' = Err("No MP4s found in verifiable mp4s", 0, 0)
            /\ pc' = "exit"
       ELSE /\ exitCode' = 0
            /\ lastErr' = NoErr
            /\ pc' = "vcopy"
    /\ UNCHANGED <<clock, strayKey, tampers, startTimestampMs, fileVars>>
    /\ FrameVarsUnchanged

\* fsp.copyFile(src, dest): a copy of a file onto itself leaves it as it is
copyFile(files, src, dest) == IF src = dest THEN files ELSE [files EXCEPT ![dest] = files[src]]

\* step 'Make temporary working copy'
MakeWorkingCopy ==
    /\ prog = "verify-file" /\ pc = "vcopy"
    /\ fs' = copyFile(fs, "final", temp1)
    /\ StepPass("vread")
    /\ UNCHANGED <<prog, clock, strayKey, argv, tampers, startTimestampMs, fileHashHex,
                   fileSignature, videoHashTxt, signOut, payloadJson, canonCalls,
                   recoverCalls>>
    /\ FrameVarsUnchanged

\* step 'Read comment JSON metadata'
ReadCommentStep(file) ==
    LET parsed == JSONparseObject(readMetadataTags(file))
    IN IF CommentIsEmpty(file)
       THEN [err |-> Err("Missing comment JSON payload", 0, 0), payloadJson |-> NoPayload]
       ELSE IF ~parsed.ok
       THEN [err |-> Err("Invalid comment JSON payload", 0, 0), payloadJson |-> NoPayload]
       ELSE [err |-> NoErr, payloadJson |-> parsed.value]

ReadCommentJson ==
    /\ prog = "verify-file" /\ pc = "vread"
    /\ \/ LET r == ReadCommentStep(fs[temp1])
          IN IF r.err = NoErr
             THEN /\ payloadJson' = r.payloadJson
                  /\ StepPass("vhash")
             ELSE /\ StepFail(r.err)
                  /\ UNCHANGED payloadJson
       \/ /\ StepFail(Err("ffmpeg (read metadata) exited", 0, 0))
          /\ UNCHANGED payloadJson
    /\ UNCHANGED <<prog, clock, strayKey, argv, tampers, startTimestampMs, fs, fileHashHex,
                   fileSignature, videoHashTxt, signOut, canonCalls, recoverCalls>>
    /\ FrameVarsUnchanged

HashMatches_unchecked(actualHash, fileHashExpected) == TRUE

\* the comparison of part_001:149
HashMatches(actualHash, fileHashExpected) ==
    toLowerCase(actualHash) = toLowerCase(fileHashExpected)

ReplaceWorkingCopy_ontoTarget(files, t1, t2, canonical) ==
    [files EXCEPT ![t1] = Absent, ![t2] = Absent, !["final"] = canonical]

\* lines 142-144, ffmpeg having written the canonical copy to temp2: temp1
\* is removed and temp2 renamed to temp1
ReplaceWorkingCopy(files, t1, t2, canonical) ==
    [files EXCEPT ![t2] = Absent, ![t1] = canonical]

\* the files after ffmpeg exited with an error: it refuses an output path
\* that is its input path and leaves the file alone; otherwise it may leave
\* a truncated output behind
FfmpegLeaves(files, inPath, outPath) ==
    IF inPath = outPath THEN {files}
    ELSE {files, [files EXCEPT ![outPath] = Truncated]}

\* step 'Recompute file hash (timestamp in comment) and compare'; with
\* temp2 equal to temp1 ffmpeg is given its input as output and exits with
\* an error
RecomputeFileHash ==
    /\ prog = "verify-file" /\ pc = "vhash"
    /\ canonCalls' = canonCalls + 1
    /\ LET tsStr == StringOfTimestamp(payloadJson)
           fileHashExpected == StringOfHash(payloadJson)
           canonical == writeCanonicalMetadata(fs[temp1], TextComment(tsStr))
           actualHash == sha256Hex(canonical)
       IN \/ /\ temp1 # temp2
             /\ fs' = ReplaceWorkingCopy(fs, temp1, temp2, canonical)
             /\ IF HashMatches(actualHash, fileHashExpected)
                THEN StepPass("vts")
                ELSE StepFail(Err("Hash mismatch - file was modified", 0, 0))
          \/ /\ StepFail(Err("ffmpeg (write canonical metadata) exited", 0, 0))
             /\ \E left \in FfmpegLeaves(fs, temp1, temp2) : fs' = left
    /\ UNCHANGED <<prog, clock, strayKey, argv, tampers, startTimestampMs, fileHashHex,
                   fileSignature, videoHashTxt, signOut, payloadJson, recoverCalls>>
    /\ FrameVarsUnchanged

CheckTimestampStep_comparesExpected(tsStr, expectedTs) ==
    IF ~TimestampShapeOk(tsStr) THEN Err("Malformed timestamp", 0, 0)
    ELSE IF expectedTs # NoExpected /\ expectedTs # tsStr
    THEN Err("Timestamp is not the expected one", 0, 0)
    ELSE NoErr

\* the body of step 'Check timestamp is numeric'; expectedTs, the second
\* argument of mainWith, is in scope and is not read
CheckTimestampStep(tsStr, expectedTs) ==
    IF TimestampShapeOk(tsStr) THEN NoErr ELSE Err("Malformed timestamp", 0, 0)

\* step 'Check timestamp is numeric'
CheckTimestamp ==
    /\ prog = "verify-file" /\ pc = "vts"
    /\ LET e == CheckTimestampStep(StringOfTimestamp(payloadJson), argv.expectedTs)
       IN IF e = NoErr THEN StepPass("vaddr") ELSE StepFail(e)
    /\ UNCHANGED <<prog, clock, strayKey, argv, tampers, startTimestampMs, fileVars>>
    /\ FrameVarsUnchanged

\* step 'Validate signer address is shaped properly'
ValidateSignerAddress ==
    /\ prog = "verify-file" /\ pc = "vaddr"
    /\ IF AddressShapeOk(StringOfAddress(payloadJson))
       THEN StepPass("vsig")
       ELSE StepFail(Err("Malformed signer address", 0, 0))
    /\ UNCHANGED <<prog, clock, strayKey, argv, tampers, startTimestampMs, fileVars>>
    /\ FrameVarsUnchanged

VerifySignatureStep_anySigner(o) ==
    IF StringOfSignature(o).key = "" THEN Err("invalid signature string", 0, 0) ELSE NoErr

\* the body of step 'Verify signature over {timestampMs,fileHashSha256}':
\* verifyMessage throws on a string that is not a signature
VerifySignatureStep(o) ==
    LET tsStr == StringOfTimestamp(o)
        signature == StringOfSignature(o)
        msg == FileMessage(Number(tsStr), StringOfHash(o))
    IN IF signature.key = "" THEN Err("invalid signature string", 0, 0)
       ELSE IF toLowerCase(verifyMessage(msg, signature)) # toLowerCase(StringOfAddress(o))
       THEN Err("Signature does not match signer address", 0, 0)
       ELSE NoErr

\* the last step, then the PASS banner and the removal of the working copy
VerifySignature ==
    /\ prog = "verify-file" /\ pc = "vsig"
    /\ recoverCalls' = recoverCalls + 1
    /\ LET e == VerifySignatureStep(payloadJson)
       IN IF e = NoErr
          THEN /\ current' = current + 1
               /\ banner' = TRUE
               /\ pc' = "exit"
               /\ fs' = [fs EXCEPT ![temp1] = Absent]
               /\ UNCHANGED <<lastErr, exitCode>>
          ELSE /\ StepFail(e)
               /\ UNCHANGED fs
    /\ UNCHANGED <<prog, clock, strayKey, argv, tampers, startTimestampMs, fileHashHex,
                   fileSignature, videoHashTxt, signOut, payloadJson, canonCalls>>
    /\ FrameVarsUnchanged

\* ------------------------------------------------- collaborator processes
\* the steps that spawn ffmpeg and await its 'exit' event
SpawnSteps == {"extract", "writeMp4", "canonical", "populate", "vread", "vhash"}
\* of these, the ones in which ffmpeg writes its output to tempPath2 / temp2
SpawnWritesTmp2 == {"canonical", "populate", "vhash"}

\* the child never emits 'exit' or 'error': the promise of the spawn is
\* never settled, no timer is armed, and the step stays awaited
ChildNeverExits ==
    /\ pc \in SpawnSteps
    /\ pc' = "waiting"
    /\ current' = current + 1
    /\ fs' = IF pc \in SpawnWritesTmp2 /\ (prog = "verify-file" => temp2 # temp1)
             THEN [fs EXCEPT !["tmp2"] = Truncated] ELSE fs
    /\ canonCalls' = IF pc = "vhash" THEN canonCalls + 1 ELSE canonCalls
    /\ UNCHANGED <<prog, clock, strayKey, argv, lastErr, exitCode, banner, tampers,
                   startTimestampMs, fileHashHex, fileSignature, videoHashTxt, signOut,
                   payloadJson, recoverCalls>>
    /\ FrameVarsUnchanged

\* ------------------------------------------------------------ specification
Init ==
    /\ prog \in {"sign-frames", "sign-file"}
    /\ pc = "start"
    /\ clock \in TsValues
    /\ strayKey \in Keys
    /\ current = 0
    /\ lastErr = NoErr
    /\ exitCode = 0
    /\ banner = FALSE
    /\ tampers = 0
    /\ argv = NoArgv
    /\ IF prog = "sign-frames" THEN InitFrames /\ InitFileIdle
                              ELSE InitFramesIdle /\ InitFile

Next ==
    \/ StartFrames
    \/ PrepareFolders
    \/ ExtractFrames
    \/ DiscoverFrames
    \/ SignFrame
    \/ WriteManifest
    \/ TamperFrameContent
    \/ TamperRemoveFrame
    \/ TamperAddFrame
    \/ TamperSwapFilenames
    \/ TamperFrameNumber
    \/ TamperManifestTimestamp
    \/ TamperSigner
    \/ VerifyFrames
    \/ NegativeVerification
    \/ SignManifestHash
    \/ WriteVerifiableMp4
    \/ StartSignFile
    \/ MakeTemporaryCopy
    \/ CreateCanonicalCopy
    \/ HashAndSign
    \/ WriteVideoHashTxt
    \/ PopulateComment
    \/ TamperStream
    \/ TamperTags
    \/ TamperPayload
    \/ StartVerifyFile
    \/ MakeWorkingCopy
    \/ ReadCommentJson
    \/ RecomputeFileHash
    \/ CheckTimestamp
    \/ ValidateSignerAddress
    \/ VerifySignature
    \/ ChildNeverExits

Spec == Init /\ [][Next]_vars

\* the continuations of the three mains: each runs once the promise it
\* awaits has settled
Steps ==
    \/ StartFrames \/ PrepareFolders \/ ExtractFrames \/ DiscoverFrames \/ SignFrame
    \/ WriteManifest \/ VerifyFrames \/ NegativeVerification \/ SignManifestHash
    \/ WriteVerifiableMp4
    \/ StartSignFile \/ MakeTemporaryCopy \/ CreateCanonicalCopy \/ HashAndSign
    \/ WriteVideoHashTxt \/ PopulateComment
    \/ MakeWorkingCopy \/ ReadCommentJson \/ RecomputeFileHash \/ CheckTimestamp
    \/ ValidateSignerAddress \/ VerifySignature

LiveSpec == Init /\ [][Next]_vars /\ WF_vars(Steps)

\* ==================================================== properties: frames
\* what the signer wrote, and what ffmpeg extracted
SignedManifest == Manifest(startTimestampMs, frames)
ExtractedDir == DirOf(videoFrames)
ManifestOnDisk == JSONparse(manifestFile)
FramesUntouched == inputDir = ExtractedDir
ManifestUntouched == manifestFile = JSONstringify(SignedManifest)
VerifyRan == prog = "sign-frames" /\ verifyLog.ran
RunRejectedAtVerify ==
    /\ pc = "exit" /\ exitCode = 1 /\ ~banner
    /\ loaded = NoManifest /\ lastErr = verifyLog.err /\ ~negLog.ran
FrameSetMismatch ==
    {"Frame count mismatch", "Frame filename mismatch", "Frame number out of order"}

\* C1: when neither the frame files nor the manifest differ from what the
\* signer left, the verification step raises no error, accepts every frame
\* and hands the loaded manifest on.
C1_FrameRoundTrip ==
    (VerifyRan /\ FramesUntouched /\ ManifestUntouched) =>
        /\ verifyLog.err = NoErr
        /\ verifyLog.accepted = Len(frames)
        /\ loaded = SignedManifest
        /\ lastErr.kind \notin FrameSetMismatch \cup
               {"Hash mismatch", "Message mismatch", "Signature verification failed"}

C1_Witness ==
    /\ VerifyRan /\ FramesUntouched /\ ManifestUntouched
    /\ Len(frames) = MaxFrames /\ verifyLog.accepted = MaxFrames

\* frames whose content on disk is not the content that was signed
ChangedFrames == {n \in DOMAIN inputDir \cap DOMAIN ExtractedDir : inputDir[n] # ExtractedDir[n]}
OneFrameChanged ==
    /\ ManifestUntouched
    /\ DOMAIN inputDir = DOMAIN ExtractedDir
    /\ Cardinality(ChangedFrames) = 1

\* C2: when exactly one frame file was changed after signing, verification
\* fails with a hash mismatch naming that file, and the run is rejected.
C2_FrameTamper ==
    (VerifyRan /\ OneFrameChanged) =>
        /\ verifyLog.err.kind = "Hash mismatch"
        /\ verifyLog.err.file \in ChangedFrames
        /\ RunRejectedAtVerify

C2_Witness ==
    /\ VerifyRan /\ OneFrameChanged /\ Len(frames) = MaxFrames
    /\ verifyLog.err.file = MaxFrames

\* C3: if a frame verifies under startTimestamp + 1 during the negative
\* verification step, the step fails and the run ends with exit status 1.
C3_NegativeAsserts ==
    (prog = "sign-frames" /\ negLog.ran /\ negLog.spurious) =>
        /\ pc = "exit" /\ exitCode = 1 /\ ~banner
        /\ hashTxt = NoHashTxt

\* C4: with an unforgeable scheme, every record the signer produced has a
\* message that differs from the one rebuilt with startTimestamp + 1, its
\* signature does not verify on the rebuilt message, and the negative loop
\* examines every frame without throwing.
C4_TimestampCommitment ==
    (prog = "sign-frames" /\ strayKey # PRIVATE_KEY) =>
        /\ \A k \in 1..Len(frames) :
              LET f == frames[k]
                  bad == buildMessageString(startTimestampMs + 1, f.frameNumber,
                                            f.frameHashSha256)
                  v == verifyEip191(SignedManifest.signer.address, bad, f.signature,
                                    SignedManifest.signer.publicKey)
              IN bad # f.message /\ ~(v.addrOk /\ v.pubOk)
        /\ negLog.ran =>
              /\ negLog.examined = Len(loaded.frames)
              /\ ~negLog.threw /\ ~negLog.spurious

C4_Witness ==
    /\ prog = "sign-frames" /\ strayKey # PRIVATE_KEY
    /\ negLog.ran /\ negLog.examined = MaxFrames /\ loaded = SignedManifest

ManifestNames == [k \in 1..Len(ManifestOnDisk.frames) |-> ManifestOnDisk.frames[k].filename]

\* C5: no frame file is read unless the manifest's filename sequence equals
\* the sorted listing; when they differ the error is a frame-set mismatch.
C5_FrameSetFirst ==
    VerifyRan =>
        /\ (ManifestNames # listPngFilesSorted(inputDir)) =>
              /\ verifyLog.err.kind \in FrameSetMismatch
              /\ verifyLog.reads = <<>>
              /\ RunRejectedAtVerify
        /\ (verifyLog.reads # <<>>) => ManifestNames = listPngFilesSorted(inputDir)

\* records 1 and 2 with their stored filenames exchanged, digests left alone
C5_Witness ==
    /\ VerifyRan /\ FramesUntouched /\ Len(frames) = 2
    /\ frames[1].frameHashSha256 # frames[2].frameHashSha256
    /\ ManifestOnDisk = [SignedManifest EXCEPT
          !.frames[1].filename = frames[2].filename,
          !.frames[2].filename = frames[1].filename]
    /\ verifyLog.err.kind = "Frame filename mismatch"

TimestampSubstituted ==
    /\ ManifestOnDisk.startTimestampMs # startTimestampMs
    /\ ManifestOnDisk = [SignedManifest EXCEPT !.startTimestampMs = ManifestOnDisk.startTimestampMs]

\* C6: when only startTimestampMs of the manifest was replaced, the run is
\* rejected and no frame is accepted; with the frame files untouched the
\* error is a message mismatch, and each record fails on its own.
C6_SubstitutedTimestamp ==
    (VerifyRan /\ TimestampSubstituted) =>
        /\ verifyLog.err # NoErr
        /\ verifyLog.accepted = 0
        /\ RunRejectedAtVerify
        /\ FramesUntouched =>
              /\ verifyLog.err.kind = "Message mismatch"
              /\ \A k \in 1..Len(ManifestOnDisk.frames) :
                    VerifyOneFrame(ManifestOnDisk, inputDir, ManifestOnDisk.frames[k]).kind
                        = "Message mismatch"

C6_Witness ==
    /\ VerifyRan /\ TimestampSubstituted /\ FramesUntouched
    /\ Len(frames) = 2 /\ ManifestOnDisk.startTimestampMs = startTimestampMs + 1

\* ================================================ properties: whole file
VerifyFileExited == prog = "verify-file" /\ pc = "exit"
Delivered == signOut.exists
DeliveredUnchanged == Delivered /\ fs["final"] = signOut
CollaboratorFailed ==
    lastErr.kind \in {"ffmpeg (read metadata) exited", "ffmpeg (write canonical metadata) exited"}
ShapeErrors == {"Malformed timestamp", "Malformed signer address"}
HashError == "Hash mismatch - file was modified"
Unforgeable == strayKey # PRIVATE_KEY
\* the payload has been read by the step 'Read comment JSON metadata'
PayloadRead ==
    /\ prog = "verify-file"
    /\ pc \in {"vhash", "vts", "vaddr", "vsig"} \/ (pc = "exit" /\ current >= 3)

\* C7 as stated: for every signing timestamp, verify-file accepts the
\* unchanged delivered container.
C7_RoundTripAnyTimestamp ==
    (VerifyFileExited /\ DeliveredUnchanged /\ ~CollaboratorFailed) =>
        banner /\ exitCode = 0

\* C7 amended: for every input container and every signing timestamp the
\* digest of the re-canonicalized container equals the payload's digest and
\* the signature recovers the payload's signerAddress; verify-file accepts
\* when the timestamp has at least ten decimal digits, and otherwise stops
\* at 'Malformed timestamp'.
C7_WholeFileRoundTrip ==
    (prog = "verify-file" /\ DeliveredUnchanged) =>
        /\ pc \in {"vts", "vaddr", "vsig"} =>
              /\ sha256Hex(fs["tmp"]) = payloadJson.fileHashSha256
              /\ sha256Hex(fs["tmp"]) = fileHashHex
        /\ (pc = "exit" /\ ~CollaboratorFailed) =>
              /\ VerifySignatureStep(signOut.comment.obj) = NoErr
              /\ TimestampShapeOk(String(startTimestampMs)) =>
                    banner /\ exitCode = 0 /\ lastErr = NoErr /\ recoverCalls = 1
              /\ ~TimestampShapeOk(String(startTimestampMs)) =>
                    ~banner /\ exitCode = 1 /\ lastErr.kind = "Malformed timestamp"

C7_Witness ==
    /\ VerifyFileExited /\ DeliveredUnchanged /\ banner
    /\ fs["input"].other # "" /\ fs["input"].comment # NoComment

\* the delivered payload, and what sign-file wrote
SignedPayload == signOut.comment.obj
PayloadNow == fs["final"].comment.obj
NotReSigned ==
    /\ Delivered
    /\ fs["final"].comment.kind = "json"
    /\ PayloadNow.present = PayloadFields
    /\ PayloadNow.signature = SignedPayload.signature
    /\ PayloadNow.signerAddress = SignedPayload.signerAddress
StreamChanged == fs["final"].stream # signOut.stream
HashChanged == PayloadNow.fileHashSha256 # SignedPayload.fileHashSha256

TimestampChanged == StringOfTimestamp(PayloadNow) # StringOfTimestamp(SignedPayload)

Malformed(o) ==
    \/ StringOfAddress(o).kind # "address"
    \/ Len(StringOfTimestamp(o)) < 10
    \/ \E k \in 1..Len(StringOfTimestamp(o)) : ~IsDigit(StringOfTimestamp(o)[k])

\* C9 as stated: a payload of malformed shape always ends in a shape error,
\* and verifyMessage is not called.
C9_ShapeErrorAlways ==
    (VerifyFileExited /\ PayloadRead /\ payloadJson.present = PayloadFields
        /\ Malformed(payloadJson) /\ ~CollaboratorFailed) =>
        /\ lastErr.kind \in ShapeErrors
        /\ recoverCalls = 0

\* C9 amended: a payload of malformed shape is never accepted and
\* verifyMessage is never called for it; the run ends in a shape error when
\* the hash comparison passes, and in the hash mismatch otherwise.
C9_ShapeBeforeCrypto ==
    (PayloadRead /\ Malformed(payloadJson)) =>
        /\ recoverCalls = 0
        /\ ~banner
        /\ pc # "vsig"
        /\ (pc = "exit" /\ ~CollaboratorFailed) =>
              /\ exitCode = 1
              /\ lastErr.kind \in ShapeErrors \cup {HashError}
              /\ (current >= 4) <=> (lastErr.kind \in ShapeErrors)

C9_Witness ==
    /\ VerifyFileExited /\ PayloadRead
    /\ StringOfAddress(payloadJson) = Hex("text", "not-an-address", "lower")
    /\ TimestampShapeOk(StringOfTimestamp(payloadJson))
    /\ lastErr.kind = "Malformed signer address"

\* the comment of the delivered container is no payload with the four fields
PayloadUnusable(file) ==
    \/ file.comment.kind # "json"
    \/ file.comment.obj.present # PayloadFields

\* C10: when the payload tag is absent, not JSON, or lacks a required field,
\* the run fails at the payload-read step and canonicalization is not tried.
C10_PayloadPresence ==
    (prog = "verify-file" /\ fs["final"].exists /\ PayloadUnusable(fs["final"])) =>
        /\ canonCalls = 0
        /\ pc \notin {"vhash", "vts", "vaddr", "vsig"}
        /\ (pc = "exit") => (current = 2 /\ exitCode = 1)

\* the canonical container sign-file hashed (the digest of a buffer names it)
HashedCanonical == fileHashHex.id
DeliveredPayload ==
    JSONstringifyObject(Payload(startTimestampMs, fileHashHex, walletAddress(PRIVATE_KEY),
                                fileSignature))

CertificateWritten == prog = "sign-frames" /\ hashTxt # NoHashTxt

\* C12 as stated: the signed message is built from the run timestamp and
\* the manifest digest, so the same manifest bytes under another run
\* timestamp would have given another signature.
C12_SignsTimestampAndDigest ==
    CertificateWritten =>
        \A ts \in (TsValues \cup {startTimestampMs + 1}) \ {startTimestampMs} :
            ManifestCertificate(ts, manifestFile).manifestSignature # manifestSignature

\* C12 amended: after the manifest is written, the signer hashes the
\* manifest file and signs the digest bytes alone; the signed message has no
\* timestamp of its own, and the timestamp is covered because the hashed
\* manifest carries the run's startTimestampMs.  manifest_hash.txt holds the
\* name, the run timestamp and the digest, and not the signature.
C12_DetachedCertificate ==
    CertificateWritten =>
        /\ current >= 7
        /\ manifestFile # NoFile
        /\ manifestSignature = signMessage(PRIVATE_KEY, <<"bytes", sha256Hex(manifestFile)>>)
        /\ ManifestOnDisk.startTimestampMs = startTimestampMs
        /\ ManifestOnDisk.frames = frames
        /\ hashTxt = [name |-> "test.mp4", startTimestamp |-> String(startTimestampMs),
                      manifestDigest |-> sha256Hex(manifestFile)]
        /\ DOMAIN hashTxt = {"name", "startTimestamp", "manifestDigest"}

C12_Witness ==
    /\ CertificateWritten /\ banner /\ exitCode = 0
    /\ Len(frames) = MaxFrames /\ startTimestampMs = 1000000000

\* an iteration of the signing loop threw
SigningLoopFailed == prog = "sign-frames" /\ lastErr.kind \in FrameFailures

\* C13: when an iteration of the signing loop fails, the run stops there
\* with exit status 1: the frames before the failing one are the only ones
\* processed, no step after 'Discover frames' runs, and the manifest file is
\* not written.  A manifest file that is written holds one record for every
\* listed frame.
C13_AllOrNothingManifest ==
    /\ SigningLoopFailed =>
          /\ pc = "exit" /\ exitCode = 1 /\ ~banner
          /\ i = lastErr.index /\ Len(frames) = lastErr.index
          /\ lastErr.file = frameFiles[lastErr.index + 1]
          /\ current = 3
          /\ manifestFile = NoFile
          /\ ~verifyLog.ran /\ ~negLog.ran /\ hashTxt = NoHashTxt /\ mp4Copy = NoMp4
    /\ (prog = "sign-frames" /\ manifestFile # NoFile) =>
          /\ Len(ManifestOnDisk.frames) = Len(frameFiles)
          /\ Len(frames) = Len(frameFiles)
          /\ lastErr.kind \notin FrameFailures

\* the second of two frames fails after the first was signed
C13_Witness ==
    /\ SigningLoopFailed /\ pc = "exit"
    /\ Len(frameFiles) = 2 /\ Len(frames) = 1 /\ lastErr.index = 1

\* ============================================ properties: all programs
\* an error was thrown in this run
Failed == lastErr # NoErr
\* the number of step(...) calls in the main of each program
StepCalls ==
    CASE prog = "sign-frames" -> TOTAL_STEPS
      [] prog = "sign-file" -> Cardinality({"copy", "canonical", "hash", "hashTxt", "populate"})
      [] prog = "verify-file" -> Cardinality({"vcopy", "vread", "vhash", "vts", "vaddr", "vsig"})
\* what the run's outcome is, at every moment
OutcomeConsistent ==
    /\ Failed => (pc = "exit" /\ exitCode = 1 /\ ~banner)
    /\ exitCode # 0 => Failed
    /\ banner => (pc = "exit" /\ exitCode = 0)
    /\ (pc = "exit" /\ exitCode = 0) => (banner /\ ~Failed /\ current = StepCalls)
    /\ current <= StepCalls
\* nothing the program writes changes after a failure, within the same process
NothingAfterFailure ==
    (Failed /\ prog' = prog) =>
        /\ UNCHANGED <<pc, current, lastErr, exitCode, banner, startTimestampMs, frameVars,
                       fileHashHex, fileSignature, videoHashTxt, signOut, payloadJson,
                       canonCalls, recoverCalls>>
        /\ fs'["tmp"] = fs["tmp"] /\ fs'["tmp2"] = fs["tmp2"] /\ fs'["input"] = fs["input"]

\* C14: in each of the three programs, a thrown error ends the run: exit
\* status 1, no banner, no later step and no later write; exit status 0 at
\* the end means every step ran and none threw.
C14_FirstFailureFatal == []OutcomeConsistent /\ [][NothingAfterFailure]_vars

\* verify-file stopped at its third step, after sign-file had succeeded
C14_Witness ==
    /\ VerifyFileExited /\ Delivered /\ Failed
    /\ lastErr.kind = HashError /\ current = 3 /\ exitCode = 1 /\ ~banner

\* a complete container: the payload tag carries all four fields
CompleteContainer(file) ==
    /\ file.exists /\ file.stream \in Streams
    /\ file.comment.kind = "json" /\ file.comment.obj.present = PayloadFields
\* the timestamp-only canonical intermediate of some timestamp
CanonicalIntermediates ==
    {Container(st, "", TextComment(String(ts))) : st \in Streams, ts \in TsValues}

\* C15: in every state of a sign-file run that nobody else has touched, the
\* output path holds what it held before the run, or nothing, or the complete
\* container the run delivered; it holds a container written by the run only
\* after the last step succeeded, and never the canonical intermediate or a
\* truncated file.
C15_NoMistakableOutput ==
    (prog = "sign-file" /\ tampers = 0) =>
        /\ \/ fs["final"] \in InitialFinals
           \/ /\ CompleteContainer(fs["final"])
              /\ fs["final"] = signOut /\ banner /\ exitCode = 0
        /\ fs["final"] \notin CanonicalIntermediates
        /\ fs["final"] # Truncated
        /\ ~banner => ~Delivered

\* ffmpeg failed in the last step and left a truncated file beside the output path
C15_Witness ==
    /\ prog = "sign-file" /\ tampers = 0 /\ pc = "exit" /\ Failed /\ current = 5
    /\ fs["tmp2"] = Truncated /\ fs["final"] \in InitialFinals

\* C16: every run ends, in success or in rejection, whatever the
\* collaborator processes do: a run that has not ended will end.
C16_BoundedWaiting == (pc # "exit") ~> (pc = "exit")

\* ---------------------------------------------- properties: signer block
\* the signer block of the manifest on disk, and the key whose signature a
\* record carries for the message stored with it
ExpectedAddress == ManifestOnDisk.signer.address
ExpectedPublicKey == ManifestOnDisk.signer.publicKey
PublicKeySupplied == ExpectedPublicKey.kind # "empty"
KeyOf(f) == IF f.signature.msg = f.message THEN f.signature.key ELSE strayKey
AddressAgrees(f) == walletAddress(KeyOf(f)).id = ExpectedAddress.id
PublicKeyAgrees(f) ==
    /\ ExpectedPublicKey.kind = "publicKey"
    /\ walletPublicKey(KeyOf(f)).id = ExpectedPublicKey.id
\* only the signer block of the manifest differs from what the signer wrote
OnlySignerEdited ==
    /\ FramesUntouched
    /\ ManifestOnDisk = [SignedManifest EXCEPT !.signer = ManifestOnDisk.signer]

\* C17: the verification step passes only if, for every record, the
\* recovered address is the manifest's signer.address and, when the manifest
\* supplies a public key, the recovered public key is that key, letter case
\* ignored; pubOk is true when no public key is supplied.  When only the
\* signer block was edited, the step passes exactly in that case and fails
\* otherwise with 'Signature verification failed' at the first frame.
C17_BothFlagsNeeded ==
    VerifyRan =>
        /\ verifyLog.err = NoErr =>
              \A k \in 1..Len(ManifestOnDisk.frames) :
                  LET f == ManifestOnDisk.frames[k]
                  IN AddressAgrees(f) /\ (PublicKeySupplied => PublicKeyAgrees(f))
        /\ \A k \in 1..Len(ManifestOnDisk.frames) :
              LET f == ManifestOnDisk.frames[k]
                  v == verifyEip191(ExpectedAddress, f.message, f.signature, ExpectedPublicKey)
              IN /\ v.addrOk = AddressAgrees(f)
                 /\ v.pubOk = (~PublicKeySupplied \/ PublicKeyAgrees(f))
        /\ OnlySignerEdited =>
              LET f == ManifestOnDisk.frames[1]
                  ok == AddressAgrees(f) /\ (PublicKeySupplied => PublicKeyAgrees(f))
              IN /\ ok => (verifyLog.err = NoErr /\ verifyLog.accepted = Len(frames))
                 /\ ~ok => /\ verifyLog.err = Err("Signature verification failed",
                                                   f.filename, 0)
                           /\ verifyLog.accepted = 0
                           /\ RunRejectedAtVerify

\* the address is the signer's, the supplied public key is another key's
C17_Witness ==
    /\ VerifyRan /\ OnlySignerEdited /\ Len(frames) = MaxFrames
    /\ ExpectedAddress = walletAddress(PRIVATE_KEY)
    /\ ExpectedPublicKey = walletPublicKey("K2")
    /\ verifyLog.err.kind = "Signature verification failed"

\* -------------------------------------------------- properties: ordinals
\* the names of a sequence of records are those of the directory, ascending
NamesAscending(frs, dir) ==
    /\ {frs[k].filename : k \in 1..Len(frs)} \subseteq DOMAIN dir
    /\ \A a, b \in 1..Len(frs) : a < b => frs[a].filename < frs[b].filename
\* some record of the manifest on disk does not carry its index plus one
OrdinalBroken == \E k \in 1..Len(ManifestOnDisk.frames) : ManifestOnDisk.frames[k].frameNumber # k

\* C18: the records the signer builds carry the ordinals 1, 2, ... in the
\* order of the sorted listing, in the record and in the signed message, and
\* the manifest it writes has one such record for every extracted frame; the
\* verification step rejects a manifest in which a record's frameNumber is
\* not its index plus one, with a frame-set error and before reading a frame.
C18_OrdinalInvariant ==
    prog = "sign-frames" =>
        /\ \A k \in 1..Len(frames) :
              /\ frames[k].frameNumber = k
              /\ frames[k].message.frameNumber = k
              /\ frames[k].filename = frameFiles[k]
        /\ NamesAscending(frames, ExtractedDir)
        /\ manifestFile # NoFile =>
              /\ Len(SignedManifest.frames) = Cardinality(DOMAIN ExtractedDir)
              /\ Len(ManifestOnDisk.frames) = Len(SignedManifest.frames)
        /\ (VerifyRan /\ OrdinalBroken) =>
              /\ verifyLog.err.kind \in FrameSetMismatch
              /\ verifyLog.reads = <<>> /\ verifyLog.accepted = 0
              /\ RunRejectedAtVerify

\* only the frameNumber of the last record was replaced
C18_Witness ==
    /\ VerifyRan /\ FramesUntouched /\ Len(frames) = MaxFrames
    /\ ManifestOnDisk = [SignedManifest EXCEPT !.frames[MaxFrames].frameNumber = 0]
    /\ verifyLog.err = Err("Frame number out of order", MaxFrames, MaxFrames - 1)

\* ------------------------------------------ properties: canonical form
\* the container has the timestamp tag and no other tag
IsCanonicalFor(file, tsStr) ==
    file.exists /\ file.other = "" /\ file.comment = TextComment(tsStr)
\* canonicalizing the container again gives the same bytes and digest
FixedPoint(file, tsStr) ==
    /\ IsCanonicalFor(file, tsStr)
    /\ writeCanonicalMetadata(file, TextComment(tsStr)) = file
    /\ sha256Hex(writeCanonicalMetadata(file, TextComment(tsStr))) = sha256Hex(file)

VerdictOf(file) ==
    LET r == ReadCommentStep(file)
        o == r.payloadJson
        canonical == writeCanonicalMetadata(file, TextComment(StringOfTimestamp(o)))
    IN IF r.err # NoErr THEN r.err
       ELSE IF toLowerCase(sha256Hex(canonical)) # toLowerCase(StringOfHash(o))
       THEN Err(HashError, 0, 0)
       ELSE IF ~TimestampShapeOk(StringOfTimestamp(o)) THEN Err("Malformed timestamp", 0, 0)
       ELSE IF ~AddressShapeOk(StringOfAddress(o)) THEN Err("Malformed signer address", 0, 0)
       ELSE VerifySignatureStep(o)
\* the container with the same stream and the same payload tag, and no other tag
WithoutOtherTags(file) == Container(file.stream, "", file.comment)

\* C20: the verdict of verify-file on a delivered container, whatever was
\* done to its tags since, and the canonical digest it computes, are those of
\* the container with the same encoded stream and the same payload tag and
\* no other tag.
C20_VerdictIgnoresOtherTags ==
    (prog = "verify-file" /\ Delivered /\ fs["final"].exists) =>
        /\ (pc = "exit" /\ ~CollaboratorFailed) =>
              /\ lastErr = VerdictOf(WithoutOtherTags(fs["final"]))
              /\ banner = (VerdictOf(WithoutOtherTags(fs["final"])) = NoErr)
        /\ pc \in {"vts", "vaddr", "vsig"} =>
              sha256Hex(fs["tmp"]) =
                  sha256Hex(writeCanonicalMetadata(WithoutOtherTags(fs["final"]),
                      TextComment(StringOfTimestamp(fs["final"].comment.obj))))

\* ------------------------------------ properties: whole-file signature
\* the message verify-file rebuilds from a payload, the address recovery
\* yields for it, and who made the payload's signature over what
RebuiltMessage(o) == FileMessage(Number(StringOfTimestamp(o)), StringOfHash(o))
RecoveredAddress(o) == verifyMessage(RebuiltMessage(o), StringOfSignature(o))
MadeOverRebuilt(o) == StringOfSignature(o).msg = RebuiltMessage(o)
MadeByNamedSigner(o) == walletAddress(StringOfSignature(o).key).id = StringOfAddress(o).id
\* the payload names, as its signer, the address that recovery yields for a
\* message the signature does not sign
NamesStrayAddress(o) == StringOfAddress(o).id = strayKey
Accepted == prog = "verify-file" /\ banner

\* C21 as stated: verify-file accepts only payloads whose signature was made
\* over the message rebuilt from the payload's own timestamp and digest, by
\* the key whose address is the payload's signerAddress; with an unforgeable
\* scheme every other payload is rejected.
C21_OnlyGenuineSignatures ==
    (Accepted /\ Unforgeable) =>
        MadeOverRebuilt(payloadJson) /\ MadeByNamedSigner(payloadJson)

\* C21 amended: verify-file accepts only if the address recovered from the
\* payload's signature for the rebuilt message is the payload's
\* signerAddress, letter case ignored, and the payload's digest is that of
\* the re-canonicalized container; signerAddress is compared with nothing
\* but the recovered address, so a signature made over another message, or by
\* another key, is rejected unless the payload names the recovered address as
\* its signer.
C21_SignatureSoundness ==
    /\ Accepted =>
          /\ toLowerCase(RecoveredAddress(payloadJson)) = toLowerCase(StringOfAddress(payloadJson))
          /\ payloadJson.present = PayloadFields
          /\ toLowerCase(StringOfHash(payloadJson)) =
                 sha256Hex(writeCanonicalMetadata(fs["final"],
                               TextComment(StringOfTimestamp(payloadJson))))
          /\ recoverCalls = 1
          /\ ~NamesStrayAddress(payloadJson) =>
                MadeOverRebuilt(payloadJson) /\ MadeByNamedSigner(payloadJson)
    /\ (VerifyFileExited /\ current = StepCalls /\ ~NamesStrayAddress(payloadJson)
           /\ ~(MadeOverRebuilt(payloadJson) /\ MadeByNamedSigner(payloadJson))) =>
          /\ ~banner /\ exitCode = 1
          /\ lastErr.kind \in {"Signature does not match signer address",
                               "invalid signature string"}

\* the signature was made by another key than the one the payload names
C21_Witness ==
    /\ VerifyFileExited /\ current = StepCalls /\ Delivered
    /\ payloadJson.signature.key = "K2" /\ MadeOverRebuilt(payloadJson)
    /\ StringOfAddress(payloadJson) = walletAddress(PRIVATE_KEY)
    /\ ~NamesStrayAddress(payloadJson)
    /\ lastErr.kind = "Signature does not match signer address"

\* ------------------------------------------- properties: the target file
\* C22: for every name of the target, no step of a verify-file run changes
\* the file at the target's path, nor the signer's input; the files a step
\* changes are the working copies, and a step changes a file only when their
\* paths differ from the target's.
C22_TargetReadOnly ==
    [][prog = "verify-file" =>
          /\ fs'["final"] = fs["final"]
          /\ fs'["input"] = fs["input"]
          /\ fs' # fs => (temp1 # "final" /\ temp2 # "final")]_vars

\* a target whose name does not end in .mp4: the working copies have the
\* target's own path, and the run stopped at the third step
C22_Witness ==
    /\ VerifyFileExited /\ DeliveredUnchanged /\ argv.ext = ".mov"
    /\ temp1 = "final" /\ temp2 = "final"
    /\ current = 3 /\ lastErr.kind = "ffmpeg (write canonical metadata) exited"

\* ------------------------------------------ properties: manifest file
\* C23: once the manifest file is written, no step of the run writes it
\* again, and the digest in manifest_hash.txt is the SHA-256 of the manifest
\* file as it stands from then on, to the end of the run.
C23_ManifestWriteOnce ==
    /\ [][(prog = "sign-frames" /\ manifestFile # NoFile /\ tampers' = tampers) =>
              manifestFile' = manifestFile]_vars
    /\ [](CertificateWritten =>
              /\ hashTxt.manifestDigest = sha256Hex(manifestFile)
              /\ manifestSignature.msg = <<"bytes", sha256Hex(manifestFile)>>)

\* the run ended in success on a manifest that was edited before verification
C23_Witness ==
    /\ CertificateWritten /\ pc = "exit" /\ banner /\ tampers > 0
    /\ manifestFile # JSONstringify(SignedManifest)
    /\ hashTxt.manifestDigest = sha256Hex(manifestFile)

\* --------------------------------------- properties: shared timestamp
\* the run has read its start timestamp
TimestampRead == prog = "sign-frames" /\ pc # "start" /\ inputVideoExists

\* C24: in a sign-frames run the start timestamp is read once, before the
\* loop, and never changes; the message of every frame record, in memory and
\* in the manifest the run wrote, the manifest's startTimestampMs field, the
\* second line of manifest_hash.txt and the album tag of the MP4 copy all
\* carry that value.
C24_SharedStartTimestamp ==
    /\ [](TimestampRead =>
            /\ startTimestampMs = clock
            /\ \A k \in 1..Len(frames) :
                  /\ frames[k].message.startTimestampMs = startTimestampMs
                  /\ frames[k].signature.msg.startTimestampMs = startTimestampMs
            /\ manifestFile # NoFile =>
                  /\ SignedManifest.startTimestampMs = startTimestampMs
                  /\ tampers = 0 => ManifestOnDisk = SignedManifest
            /\ CertificateWritten =>
                  /\ hashTxt.startTimestamp = String(startTimestampMs)
                  /\ ManifestOnDisk.startTimestampMs = startTimestampMs
                  /\ \A k \in 1..Len(ManifestOnDisk.frames) :
                        ManifestOnDisk.frames[k].message.startTimestampMs = startTimestampMs
            /\ mp4Copy # NoMp4 => mp4Copy.album = startTimestampMs)
    /\ [][TimestampRead => startTimestampMs' = startTimestampMs]_vars

C24_Witness ==
    /\ TimestampRead /\ CertificateWritten /\ mp4Copy # NoMp4 /\ banner
    /\ Len(frames) = MaxFrames /\ startTimestampMs = 999999999
    /\ hashTxt.startTimestamp = String(999999999)

\* ------------------------------- properties: certificate after verification
\* something of the certificate or of the MP4 copy has been written
CertificateOrCopyWritten ==
    hashTxt # NoHashTxt \/ manifestSignature # NoSig \/ mp4Copy # NoMp4

\* C25: in a sign-frames run, manifest_hash.txt and the verifiable MP4 copy
\* are written only after the verification step accepted every frame of the
\* manifest on disk and the negative-verification step returned, in that
\* order, the copy after the certificate; a run in which the verification
\* step threw has written neither, and ends with exit status 1.
C25_CertificateAfterVerification ==
    prog = "sign-frames" =>
        /\ CertificateOrCopyWritten =>
              /\ verifyLog.ran /\ verifyLog.err = NoErr
              /\ verifyLog.accepted = Len(ManifestOnDisk.frames)
              /\ loaded = ManifestOnDisk
              /\ negLog.ran
              /\ current >= 7 /\ pc \in {"writeMp4", "waiting", "exit"}
              /\ hashTxt # NoHashTxt /\ manifestSignature # NoSig
        /\ mp4Copy # NoMp4 => (current = TOTAL_STEPS /\ banner /\ exitCode = 0)
        /\ negLog.ran => (verifyLog.ran /\ verifyLog.err = NoErr)
        /\ (verifyLog.ran /\ verifyLog.err # NoErr) =>
              /\ ~CertificateOrCopyWritten /\ ~negLog.ran
              /\ pc = "exit" /\ exitCode = 1 /\ ~banner /\ current = 5

\* the certificate is written and the MP4 copy is not: ffmpeg failed in the last step
C25_Witness ==
    /\ prog = "sign-frames" /\ pc = "exit" /\ Failed /\ current = TOTAL_STEPS
    /\ hashTxt # NoHashTxt /\ mp4Copy = NoMp4
    /\ verifyLog.accepted = MaxFrames /\ negLog.examined = MaxFrames

\* ---------------------------------- properties: expected timestamp argument
\* the run ended with this verdict: the error, or NoErr and the PASS banner
EndsWith(verdict) == lastErr = verdict /\ banner = (verdict = NoErr)
\* the relation of process.argv[3] to the timestamp of the payload that was read
ExpectedAbsent == argv.expectedTs = NoExpected
ExpectedEqual == argv.expectedTs = StringOfTimestamp(payloadJson)
ExpectedDifferent == ~ExpectedAbsent /\ ~ExpectedEqual

\* C26: a verify-file run on a container ends as the container alone
\* decides: with the expected-timestamp argument absent, equal to the
\* payload's timestamp or different from it, a run in which ffmpeg did not
\* fail ends with the same error, or the same acceptance; under a name that
\* does not end in .mp4 it ends at the payload read or at ffmpeg's refusal.
C26_ExpectedTimestampIgnored ==
    (VerifyFileExited /\ fs["final"].exists) =>
        /\ (argv.ext = ".mp4" /\ ~CollaboratorFailed) =>
              /\ EndsWith(VerdictOf(fs["final"]))
              /\ exitCode = (IF VerdictOf(fs["final"]) = NoErr THEN 0 ELSE 1)
        /\ argv.ext # ".mp4" =>
              /\ ~banner /\ exitCode = 1
              /\ \/ CollaboratorFailed
                 \/ lastErr = ReadCommentStep(fs["final"]).err

\* accepted although the expected timestamp given is not the payload's
C26_Witness ==
    /\ VerifyFileExited /\ DeliveredUnchanged /\ argv.ext = ".mp4"
    /\ ExpectedDifferent /\ banner /\ exitCode = 0
    /\ StringOfTimestamp(payloadJson) = String(1000000000)

\* ------------------------------------------ properties: working copies
\* C27: when a verify-file run on a target named *.mp4 has ended, accepted
\* or rejected at whatever step, neither the .tmp.mp4 nor the .tmp2.mp4 file
\* beside the target is on disk.
C27_WorkingCopiesRemoved ==
    (VerifyFileExited /\ argv.ext = ".mp4" /\ current >= 1) =>
        ~fs["tmp"].exists /\ ~fs["tmp2"].exists

====
